---- MODULE Spec2Model ----
(***************************************************************************)
(* A model of the Frodo primitive layer of frodo.go: the three parameter   *)
(* records and the methods Encode, Decode, Pack, Unpack, Gen and           *)
(* SampleMatrix of *Parameters.                                            *)
(*                                                                         *)
(* The methods are pure; each is an operator computed the way the Go code  *)
(* computes it (same index arithmetic, same bit order, same integer        *)
(* widths).  A Go slice is a TLA+ sequence, so the Go index x is position  *)
(* x + 1.  A run-time panic (index out of range) is the result NoResult    *)
(* with ok = FALSE.  The state is the parameter record in use and the      *)
(* list of calls made so far, each with its arguments and its result.      *)
(***************************************************************************)
EXTENDS Integers, Sequences, FiniteSets, TLC

VARIABLES param, calls

vars == <<param, calls>>

(***************************************************************************)
(* Bounds of the model.                                                    *)
(***************************************************************************)
MaxCalls == 3     \* calls made in one run
MaxRows == 2      \* rows n1 of the matrices handed to Pack/Unpack/SampleMatrix
MaxCols == 4      \* columns n2 of those matrices
MaxProbe == 2     \* Gen's result is observed at indices 0..MaxProbe and no-1

(***************************************************************************)
(* Parameter records (frodo.go, Frodo640 / Frodo976 / Frodo1344).          *)
(***************************************************************************)
Frodo640 ==
  [no |-> 640, q |-> 32767, D |-> 15, B |-> 2, m |-> 8, n |-> 8,
   lseedA |-> 16, l |-> 16]

Frodo976 ==
  [no |-> 976, q |-> 65535, D |-> 16, B |-> 3, m |-> 8, n |-> 8,
   lseedA |-> 16, l |-> 24]

Frodo1344 ==
  [no |-> 1344, q |-> 65535, D |-> 16, B |-> 4, m |-> 8, n |-> 8,
   lseedA |-> 16, l |-> 32]

Parameters == {Frodo640, Frodo976, Frodo1344}

(***************************************************************************)
(* Fixed-width integer helpers.                                            *)
(***************************************************************************)
Bit(x, k) == (x \div (2 ^ k)) % 2

U16(x) == x % 65536

\* x & y on 16-bit operands
And16(x, y) ==
  LET t(k) == Bit(x, k) * Bit(y, k) * (2 ^ k)
  IN  t(0) + t(1) + t(2) + t(3) + t(4) + t(5) + t(6) + t(7)
      + t(8) + t(9) + t(10) + t(11) + t(12) + t(13) + t(14) + t(15)

RECURSIVE SumSeq(_)
SumSeq(s) == IF s = <<>> THEN 0 ELSE Head(s) + SumSeq(Tail(s))

\* a 16-bit value read as a signed (two's complement) integer
Signed16(x) == IF x >= 32768 THEN x - 65536 ELSE x

\* The result of a call that panicked (Go run-time error: index out of range).
NoResult == [ok |-> FALSE, val |-> <<>>]

Returned(v) == [ok |-> TRUE, val |-> v]

(***************************************************************************)
(* ec and dc are called by Encode and Decode but their bodies are not in   *)
(* frodo.go; they are taken from the documented formulas                   *)
(*   ec(k) = k * q / 2^B = k * 2^(D-B),   dc(c) = round(c * 2^B / q) mod 2^B *)
(* with round-half-up.                                                     *)
(***************************************************************************)
ec(p, v) == U16(v * (2 ^ (p.D - p.B)))

dc(p, c) == ((c * (2 ^ p.B) + (2 ^ (p.D - 1))) \div (2 ^ p.D)) % (2 ^ p.B)

(***************************************************************************)
(* Encode (frodo.go 80-97).  Cell (i, j) takes the B bits at positions     *)
(* (i*n+j)*B + l, l = 0..B-1, of k; position g is bit 0x80 >> (g & 7) of    *)
(* byte g / 8, and it becomes bit l of the cell's value.  Every position   *)
(* is read, so a k shorter than the last position's byte panics.           *)
(***************************************************************************)
EncodeBitPos(p, i, j, l) == ((i * p.n + j) * p.B) + l

KBit(k, g) == Bit(k[(g \div 8) + 1], 7 - (g % 8))

EncodeTemp(p, k, i, j) ==
  SumSeq([x \in 1..p.B |-> KBit(k, EncodeBitPos(p, i, j, x - 1)) * (2 ^ (x - 1))])

Encode(p, k) ==
  IF \E i \in 0..(p.m - 1), j \in 0..(p.n - 1), l \in 0..(p.B - 1) :
        EncodeBitPos(p, i, j, l) \div 8 >= Len(k)
  THEN NoResult
  ELSE Returned([i \in 1..p.m |-> [j \in 1..p.n |->
                   ec(p, EncodeTemp(p, k, i - 1, j - 1))]])

(***************************************************************************)
(* Decode (frodo.go 100-115).  The result has param.l bytes, all zero at   *)
(* first; bit l of dc(K[i][j]), when set, is OR-ed into position           *)
(* (i*n+j)*B + l.  A set bit whose byte is past the end panics.            *)
(***************************************************************************)
DecodeBitSet(p, K, g) ==
  LET c == g \div p.B
      l == g % p.B
  IN  \E i \in 1..Len(K) :
        LET j == c - ((i - 1) * p.n)
        IN  /\ j >= 0
            /\ j < Len(K[i])
            /\ Bit(dc(p, K[i][j + 1]), l) = 1

DecodeByte(p, K, x) ==
  LET t(s) == IF DecodeBitSet(p, K, (8 * x) + s) THEN 2 ^ (7 - s) ELSE 0
  IN  t(0) + t(1) + t(2) + t(3) + t(4) + t(5) + t(6) + t(7)

\* Decode with the B bits of a cell written most significant first
DecodeMsbFirst(p, K) ==
  LET set(g) ==
        \E i \in 1..Len(K) :
          LET j == (g \div p.B) - ((i - 1) * p.n)
          IN  /\ j >= 0
              /\ j < Len(K[i])
              /\ Bit(dc(p, K[i][j + 1]), p.B - 1 - (g % p.B)) = 1
      byte(x) ==
        LET t(s) == IF set((8 * x) + s) THEN 2 ^ (7 - s) ELSE 0
        IN  t(0) + t(1) + t(2) + t(3) + t(4) + t(5) + t(6) + t(7)
  IN  Returned([x \in 1..p.l |-> byte(x - 1)])

Decode(p, K) ==
  IF \E i \in 1..Len(K) : \E j \in 1..Len(K[i]) : \E l \in 0..(p.B - 1) :
        /\ Bit(dc(p, K[i][j]), l) = 1
        /\ EncodeBitPos(p, i - 1, j - 1, l) \div 8 >= p.l
  THEN NoResult
  ELSE Returned([x \in 1..p.l |-> DecodeByte(p, K, x - 1)])

(***************************************************************************)
(* Pack (frodo.go 118-133).  The result has D*n1*n2/8 bytes (integer       *)
(* division); bit D-1-l of C[i][j], when set, is OR-ed into position       *)
(* (i*n2+j)*D + l.  A set bit whose byte is past the end panics.           *)
(***************************************************************************)
PackBitPos(p, n2, i, j, l) == ((i * n2 + j) * p.D) + l

PackLen(p, n1, n2) == (p.D * n1 * n2) \div 8

PackBitSet(p, C, n2, g) ==
  LET c == g \div p.D
      l == g % p.D
      i == c \div n2
      j == c % n2
  IN  /\ i < Len(C)
      /\ Bit(C[i + 1][j + 1], p.D - 1 - l) = 1

PackByte(p, C, n2, x) ==
  LET t(s) == IF PackBitSet(p, C, n2, (8 * x) + s) THEN 2 ^ (7 - s) ELSE 0
  IN  t(0) + t(1) + t(2) + t(3) + t(4) + t(5) + t(6) + t(7)

\* Pack with the bits of each byte filled from the low end (0x01 << shift)
PackLsbFirst(p, C) ==
  LET n1 == Len(C)
      n2 == Len(C[1])
      byte(x) ==
        LET t(s) == IF PackBitSet(p, C, n2, (8 * x) + s) THEN 2 ^ s ELSE 0
        IN  t(0) + t(1) + t(2) + t(3) + t(4) + t(5) + t(6) + t(7)
  IN  IF \E i \in 0..(n1 - 1), j \in 0..(n2 - 1), l \in 0..(p.D - 1) :
            /\ Bit(C[i + 1][j + 1], p.D - 1 - l) = 1
            /\ PackBitPos(p, n2, i, j, l) \div 8 >= PackLen(p, n1, n2)
      THEN NoResult
      ELSE Returned([x \in 1..PackLen(p, n1, n2) |-> byte(x - 1)])

Pack(p, C) ==
  LET n1 == Len(C)
      n2 == Len(C[1])
  IN  IF \E i \in 0..(n1 - 1), j \in 0..(n2 - 1), l \in 0..(p.D - 1) :
            /\ Bit(C[i + 1][j + 1], p.D - 1 - l) = 1
            /\ PackBitPos(p, n2, i, j, l) \div 8 >= PackLen(p, n1, n2)
      THEN NoResult
      ELSE Returned([x \in 1..PackLen(p, n1, n2) |-> PackByte(p, C, n2, x - 1)])

(***************************************************************************)
(* Unpack (frodo.go 136-151).  Every position (i*n2+j)*D + l is read from  *)
(* b (a panic when its byte is past the end) and becomes bit D-1-l of      *)
(* C[i][j].                                                                *)
(***************************************************************************)
UnpackEntry(p, b, n2, i, j) ==
  SumSeq([x \in 1..p.D |->
            KBit(b, PackBitPos(p, n2, i, j, x - 1)) * (2 ^ (p.D - x))])

Unpack(p, b, n1, n2) ==
  IF \E i \in 0..(n1 - 1), j \in 0..(n2 - 1), l \in 0..(p.D - 1) :
        PackBitPos(p, n2, i, j, l) \div 8 >= Len(b)
  THEN NoResult
  ELSE Returned([i \in 1..n1 |-> [j \in 1..n2 |->
                   UnpackEntry(p, b, n2, i - 1, j - 1)]])

(***************************************************************************)
(* shake is called by Gen but its body is not in frodo.go.  It is an       *)
(* extendable-output hash (SHAKE128 for no = 640, SHAKE256 otherwise): a   *)
(* deterministic function of the input bytes giving outLen bytes.  The     *)
(* model uses a small mixing function in its place; only determinism and   *)
(* the fact that bytes at different offsets differ are relied on.          *)
(***************************************************************************)
RECURSIVE Absorb(_, _)
Absorb(h, b) ==
  IF b = <<>> THEN h ELSE Absorb(((h * 31) + Head(b) + 1) % 65521, Tail(b))

shake(p, b, outLen) ==
  LET h == Absorb(IF p.no = 640 THEN 128 ELSE 256, b)
  IN  [t \in 1..outLen |-> (((h + 1) * ((2 * t) - 1)) \div 16) % 256]

(***************************************************************************)
(* Gen (frodo.go 154-170).  Row i hashes <<byte(i>>8), byte(i)>> \o seed   *)
(* to 2*no bytes; entry j is                                               *)
(*   ((uint16(shakeStr[j*2]) << 8) | uint16(shakeStr[i*2+1])) & q.         *)
(* The seed's length is not examined.                                      *)
(***************************************************************************)
GenRowInput(i, seed) == <<(i \div 256) % 256, i % 256>> \o seed

\* entry A[i][j] of the matrix Gen(seed) returns, 0 <= i, j < no
Gen(p, seed, i, j) ==
  LET shakeStr == shake(p, GenRowInput(i, seed), p.no * 2)
  IN  Returned(And16(U16(shakeStr[(j * 2) + 1] * 256) + shakeStr[(i * 2 + 1) + 1], p.q))

(***************************************************************************)
(* SampleMatrix (frodo.go 173-191).  Entry (i, j) reads the little-endian  *)
(* 16-bit word at r[2*(i*n2+j):] (a panic when fewer than two bytes are    *)
(* left), sets r = (t << 8) + t, d = sum over j < 8 of (r << j) &          *)
(* 0x01010101 in 32 bits, a and b from the bytes of d, and stores          *)
(* 0xfffd - a + b in 16 bits.  No mask with q is applied.                  *)
(***************************************************************************)
\* bit k of the 32-bit value r << j (bits shifted past bit 31 are dropped)
ShlBit(r, j, k) == IF k >= j /\ k <= 31 THEN Bit(r, k - j) ELSE 0

\* (r << j) & 0x01010101
ShlAnd01010101(r, j) ==
  ShlBit(r, j, 0) + (ShlBit(r, j, 8) * 256) + (ShlBit(r, j, 16) * 65536)
  + (ShlBit(r, j, 24) * 16777216)

SampleWord(t) ==
  LET r == (t * 256) + t
      s(j) == ShlAnd01010101(r, j)
      d == s(0) + s(1) + s(2) + s(3) + s(4) + s(5) + s(6) + s(7)
      a == ((d \div 256) % 256) + (d % 256)
      b == (d \div 16777216) + ((d \div 65536) % 256)
  IN  U16((65533 - U16(a)) + U16(b))

LittleEndianUint16(r, off) == r[off + 1] + (256 * r[off + 2])

SampleOffset(n2, i, j) == 2 * ((i * n2) + j)

\* SampleMatrix with the byte offset of entry (i, j) taken as i*n2+j
SampleMatrixWordOffset(p, r, n1, n2) ==
  IF \E i \in 0..(n1 - 1), j \in 0..(n2 - 1) : ((i * n2) + j) + 2 > Len(r)
  THEN NoResult
  ELSE Returned([i \in 1..n1 |-> [j \in 1..n2 |->
                   SampleWord(LittleEndianUint16(r, ((i - 1) * n2) + (j - 1)))]])

SampleMatrix(p, r, n1, n2) ==
  IF \E i \in 0..(n1 - 1), j \in 0..(n2 - 1) : SampleOffset(n2, i, j) + 2 > Len(r)
  THEN NoResult
  ELSE Returned([i \in 1..n1 |-> [j \in 1..n2 |->
                   SampleWord(LittleEndianUint16(r, SampleOffset(n2, i - 1, j - 1)))]])

(***************************************************************************)
(* sumMatrices is the entry-wise sum mod 2^D of two matrices of the same   *)
(* shape; the caller (Enc) adds the encoded message to a noise matrix with *)
(* it.  Its body is not in frodo.go.                                       *)
(***************************************************************************)
sumMatrices(p, A, E) ==
  Returned([i \in 1..Len(A) |-> [j \in 1..Len(A[i]) |->
              (A[i][j] + E[i][j]) % (2 ^ p.D)]])

(***************************************************************************)
(* The inputs the calls are made with.                                     *)
(***************************************************************************)
BytePat(len, fill, pos, v) == [x \in 1..len |-> IF x = pos THEN v ELSE fill]

ByteStrings(len) ==
  {BytePat(len, fill, pos, v) : fill \in {0, 255}, pos \in {1, len}, v \in {1, 128, 165}}

MatPat(n1, n2, base, pi, pj, v) ==
  [i \in 1..n1 |-> [j \in 1..n2 |-> IF i = pi /\ j = pj THEN v ELSE base]]

Shapes == (1..MaxRows) \X (1..MaxCols)

\* matrices over the ring: every entry in [0, 2^D)
RingValues(p) == {0, 1, 2 ^ (p.D - 1), p.q, 10837}

RingMatrices(p, n1, n2) ==
  {MatPat(n1, n2, base, pi, pj, v) :
     base \in {0, p.q}, pi \in 1..n1, pj \in 1..n2, v \in RingValues(p)}

\* the decoding margin 2^(D-B-1)
Margin(p) == 2 ^ (p.D - p.B - 1)

\* noise values as 16-bit two's complement, inside the margin and on it
NoiseValues(p) ==
  {0, 1, 65535, Margin(p) - 1, 65536 - (Margin(p) - 1), Margin(p), 65536 - Margin(p)}

NoiseMatrices(p) ==
  {MatPat(p.m, p.n, base, c[1], c[2], v) :
     base \in {0, Margin(p) - 1, 65536 - (Margin(p) - 1)},
     c \in {<<1, 1>>, <<p.m, p.n>>}, v \in NoiseValues(p)}

WordsToBytes(w) ==
  [x \in 1..(2 * Len(w)) |->
     IF x % 2 = 1 THEN w[(x + 1) \div 2] % 256 ELSE w[x \div 2] \div 256]

SampleWords == {1, 65280, 32768, 4660}

SampleBuffers(n1, n2) ==
  {WordsToBytes([x \in 1..(n1 * n2) |-> IF x = pos THEN w ELSE fill]) :
     fill \in {0, 65535}, pos \in 1..(n1 * n2), w \in SampleWords}

\* r with the word at position pos (counted from 1) replaced by w
ReplaceWord(r, pos, w) ==
  [x \in 1..Len(r) |->
     IF x = (2 * pos) - 1 THEN w % 256
     ELSE IF x = 2 * pos THEN w \div 256
     ELSE r[x]]

ProbeIndices(p) == (0..MaxProbe) \cup {p.no - 1}

(***************************************************************************)
(* The calls.  The first call of a run takes a fresh input; a later call   *)
(* takes the result of the call before it.                                 *)
(***************************************************************************)
Last == calls[Len(calls)]

LastReturned(ops) ==
  /\ calls # <<>>
  /\ Last.op \in ops
  /\ Last.ret.ok

EncodeCall ==
  /\ calls = <<>>
  /\ \E len \in {param.l - 1, param.l, param.l + 1} : \E k \in ByteStrings(len) :
       calls' = Append(calls, [op |-> "Encode", k |-> k, ret |-> Encode(param, k)])
  /\ UNCHANGED param

sumMatricesCall ==
  /\ Len(calls) < MaxCalls
  /\ LastReturned({"Encode"})
  /\ \E E \in NoiseMatrices(param) :
       calls' = Append(calls, [op |-> "sumMatrices", A |-> Last.ret.val, E |-> E,
                               ret |-> sumMatrices(param, Last.ret.val, E)])
  /\ UNCHANGED param

DecodeCall ==
  /\ Len(calls) < MaxCalls
  /\ LastReturned({"Encode", "sumMatrices"})
  /\ calls' = Append(calls, [op |-> "Decode", K |-> Last.ret.val,
                             ret |-> Decode(param, Last.ret.val)])
  /\ UNCHANGED param

PackInputs ==
  IF calls = <<>>
  THEN UNION {RingMatrices(param, s[1], s[2]) : s \in Shapes}
  ELSE IF LastReturned({"Unpack"}) THEN {Last.ret.val} ELSE {}

PackCall ==
  /\ Len(calls) < MaxCalls
  /\ \E C \in PackInputs :
       calls' = Append(calls, [op |-> "Pack", C |-> C, ret |-> Pack(param, C)])
  /\ UNCHANGED param

UnpackNeed(p, n1, n2) == ((p.D * n1 * n2) + 7) \div 8

UnpackInputs ==
  IF calls = <<>>
  THEN UNION {{<<b, s[1], s[2]>> :
                 b \in UNION {ByteStrings(UnpackNeed(param, s[1], s[2]) + x) :
                                x \in {-1, 0, 1}}} : s \in Shapes}
  ELSE IF LastReturned({"Pack"})
       THEN {<<Last.ret.val, Len(Last.C), Len(Last.C[1])>>}
       ELSE {}

UnpackCall ==
  /\ Len(calls) < MaxCalls
  /\ \E a \in UnpackInputs :
       calls' = Append(calls, [op |-> "Unpack", b |-> a[1], n1 |-> a[2], n2 |-> a[3],
                               ret |-> Unpack(param, a[1], a[2], a[3])])
  /\ UNCHANGED param

\* Gen's result is a no-by-no matrix; the call records its entry (i, j).
GenCall ==
  /\ calls = <<>>
  /\ \E len \in {param.lseedA - 1, param.lseedA, param.lseedA + 1} :
       \E seed \in ByteStrings(len) : \E i \in ProbeIndices(param), j \in ProbeIndices(param) :
         calls' = Append(calls, [op |-> "Gen", seed |-> seed, i |-> i, j |-> j,
                                 ret |-> Gen(param, seed, i, j)])
  /\ UNCHANGED param

SampleMatrixInputs ==
  IF calls = <<>>
  THEN UNION {{<<r, s[1], s[2]>> : r \in SampleBuffers(s[1], s[2])} : s \in Shapes}
  ELSE IF Len(calls) = 1 /\ LastReturned({"SampleMatrix"})
       THEN {<<ReplaceWord(Last.r, pos, w), Last.n1, Last.n2>> :
               pos \in 1..(Last.n1 * Last.n2), w \in SampleWords}
       ELSE {}

SampleMatrixCall ==
  /\ Len(calls) < MaxCalls
  /\ \E a \in SampleMatrixInputs :
       calls' = Append(calls, [op |-> "SampleMatrix", r |-> a[1], n1 |-> a[2], n2 |-> a[3],
                               ret |-> SampleMatrix(param, a[1], a[2], a[3])])
  /\ UNCHANGED param

Init ==
  /\ param \in Parameters
  /\ calls = <<>>

Next ==
  \/ EncodeCall
  \/ sumMatricesCall
  \/ DecodeCall
  \/ PackCall
  \/ UnpackCall
  \/ GenCall
  \/ SampleMatrixCall

Spec == Init /\ [][Next]_vars

(***************************************************************************)
(* Properties.                                                             *)
(***************************************************************************)
Calls == 1..Len(calls)

InRing(p, M) == \A i \in 1..Len(M) : \A j \in 1..Len(M[i]) : M[i][j] \in 0..((2 ^ p.D) - 1)

WithinMargin(p, E) ==
  \A i \in 1..Len(E) : \A j \in 1..Len(E[i]) :
    /\ Signed16(E[i][j]) < Margin(p)
    /\ Signed16(E[i][j]) > -Margin(p)

\* the 16-bit word of buffer r that belongs to entry (i, j), i and j from 1
WordAt(r, n2, i, j) ==
  r[(2 * (((i - 1) * n2) + (j - 1))) + 1] + (256 * r[(2 * (((i - 1) * n2) + (j - 1))) + 2])

\* C1: Pack of a matrix with every entry in [0, 2^D) completes, and Unpack of
\* its result with the matrix's dimensions completes and returns the matrix,
\* whether or not D*n1*n2 is a multiple of 8.
C1_PackUnpackRoundTrip ==
  \A x \in Calls :
    (calls[x].op = "Pack" /\ InRing(param, calls[x].C)) =>
      /\ calls[x].ret.ok
      /\ (x < Len(calls) /\ calls[x + 1].op = "Unpack") =>
           /\ calls[x + 1].ret.ok
           /\ calls[x + 1].ret.val = calls[x].C

\* C2: Decode of (Encode(k) + E) mod 2^D returns k, for k of B*m*n/8 bytes and
\* E with every entry of magnitude below 2^(D-B-1).
C2_DecodeRecoversUnderNoise ==
  \A x \in Calls :
    (/\ x >= 3
     /\ calls[x].op = "Decode"
     /\ calls[x - 1].op = "sumMatrices"
     /\ calls[x - 2].op = "Encode"
     /\ Len(calls[x - 2].k) = (param.B * param.m * param.n) \div 8
     /\ WithinMargin(param, calls[x - 1].E)) =>
      /\ calls[x].ret.ok
      /\ calls[x].ret.val = calls[x - 2].k

C2_Witness ==
  \E x \in Calls :
    /\ x >= 3
    /\ calls[x].op = "Decode"
    /\ calls[x - 1].op = "sumMatrices"
    /\ calls[x - 2].op = "Encode"
    /\ Len(calls[x - 2].k) = (param.B * param.m * param.n) \div 8
    /\ WithinMargin(param, calls[x - 1].E)
    /\ Signed16(calls[x - 1].E[1][1]) = 1 - Margin(param)
    /\ Signed16(calls[x - 1].E[2][2]) = Margin(param) - 1
    /\ calls[x - 2].k[1] = 165
    /\ calls[x - 1].ret.val # calls[x - 1].A
    /\ calls[x].ret.val = calls[x - 2].k

\* C3: entry (i, j) of Gen(seed) is ((out_i[2j] << 8) | out_i[2j+1]) masked to
\* D bits, out_i being the 2*no-byte hash of the big-endian i followed by the
\* seed.
C3_GenEntryFromConsecutivePair ==
  \A x \in Calls :
    (calls[x].op = "Gen" /\ Len(calls[x].seed) = param.lseedA) =>
      LET out == shake(param, GenRowInput(calls[x].i, calls[x].seed), 2 * param.no)
      IN  /\ calls[x].ret.ok
          /\ calls[x].ret.val =
               And16(U16(out[(2 * calls[x].j) + 1] * 256) + out[(2 * calls[x].j) + 2],
                     (2 ^ param.D) - 1)

\* C4: every matrix returned by Gen, SampleMatrix, Encode or Unpack has every
\* entry in [0, 2^D).
C4_ReturnedEntriesReduced ==
  \A x \in Calls :
    /\ (calls[x].op = "Gen" /\ calls[x].ret.ok) =>
         calls[x].ret.val \in 0..((2 ^ param.D) - 1)
    /\ (calls[x].op \in {"SampleMatrix", "Encode", "Unpack"} /\ calls[x].ret.ok) =>
         InRing(param, calls[x].ret.val)

\* C5: in each parameter record no is a multiple of 8, B <= D <= 16 and
\* l = B*m*n.
C5_ParameterRecordConsistent ==
  /\ param.no % 8 = 0
  /\ param.B <= param.D
  /\ param.D <= 16
  /\ param.l = param.B * param.m * param.n

\* C6: Encode of a byte string whose length is not ceil(B*m*n/8), and Unpack of
\* a byte string shorter than ceil(D*n1*n2/8), return no matrix.
C6_WrongLengthRejected ==
  \A x \in Calls :
    /\ (/\ calls[x].op = "Encode"
        /\ Len(calls[x].k) # ((param.B * param.m * param.n) + 7) \div 8) =>
         ~calls[x].ret.ok
    /\ (/\ calls[x].op = "Unpack"
        /\ Len(calls[x].b) < ((param.D * calls[x].n1 * calls[x].n2) + 7) \div 8) =>
         ~calls[x].ret.ok

\* C7: Gen of a seed whose length is not lseedA returns no matrix.
C7_WrongSeedLengthRejected ==
  \A x \in Calls :
    (calls[x].op = "Gen" /\ Len(calls[x].seed) # param.lseedA) => ~calls[x].ret.ok

\* the entry SampleMatrix computes from the 16-bit word t, as a signed integer
SampleOfWord(t) == Signed16(SampleMatrix(param, WordsToBytes(<<t>>), 1, 1).val[1][1])

\* the number of 16-bit words whose sample is e
SampleCount(e) == Cardinality({t \in 0..65535 : SampleOfWord(t) = e})

\* C8: the samples are symmetric about zero: whatever value e SampleMatrix
\* returns in an entry, as many of the 65536 input words give e as give -e.
C8_SampleSymmetric ==
  \A x \in Calls :
    (calls[x].op = "SampleMatrix" /\ calls[x].ret.ok) =>
      \A i \in 1..calls[x].n1 : \A j \in 1..calls[x].n2 :
        LET e == Signed16(calls[x].ret.val[i][j])
        IN  SampleCount(e) = SampleCount(-e)

\* C9: SampleMatrix of a buffer of 2*n1*n2 bytes returns a matrix whose entry
\* (i, j) depends only on the little-endian word at byte 2*(i*n2+j): two
\* buffers that agree on that word give the same entry (i, j).
C9_SampleEntryDependsOnItsWord ==
  \A x \in Calls :
    (calls[x].op = "SampleMatrix" /\ Len(calls[x].r) = 2 * calls[x].n1 * calls[x].n2) =>
      /\ calls[x].ret.ok
      /\ \A y \in Calls :
           (/\ calls[y].op = "SampleMatrix"
            /\ calls[y].n1 = calls[x].n1
            /\ calls[y].n2 = calls[x].n2
            /\ Len(calls[y].r) = Len(calls[x].r)) =>
             \A i \in 1..calls[x].n1 : \A j \in 1..calls[x].n2 :
               WordAt(calls[x].r, calls[x].n2, i, j) = WordAt(calls[y].r, calls[x].n2, i, j)
                 => calls[x].ret.val[i][j] = calls[y].ret.val[i][j]

C9_Witness ==
  /\ Len(calls) = 2
  /\ calls[1].op = "SampleMatrix"
  /\ calls[2].op = "SampleMatrix"
  /\ calls[1].n1 = 2
  /\ calls[1].n2 = 2
  /\ calls[1].ret.ok
  /\ calls[2].ret.ok
  /\ WordAt(calls[1].r, 2, 1, 2) # WordAt(calls[2].r, 2, 1, 2)
  /\ calls[1].ret.val[1][2] # calls[2].ret.val[1][2]
  /\ WordAt(calls[1].r, 2, 2, 1) = WordAt(calls[2].r, 2, 2, 1)
  /\ calls[1].ret.val[2][1] = calls[2].ret.val[2][1]
  /\ calls[1].ret.val[2][1] # calls[1].ret.val[1][1]

\* C10: for D*n1*n2 a multiple of 8 and b of exactly D*n1*n2/8 bytes,
\* Unpack(b, n1, n2) completes and Pack of its result is b.
C10_PackOfUnpackIsIdentity ==
  \A x \in Calls :
    (/\ calls[x].op = "Unpack"
     /\ (param.D * calls[x].n1 * calls[x].n2) % 8 = 0
     /\ Len(calls[x].b) = (param.D * calls[x].n1 * calls[x].n2) \div 8) =>
      /\ calls[x].ret.ok
      /\ (x < Len(calls) /\ calls[x + 1].op = "Pack") =>
           /\ calls[x + 1].ret.ok
           /\ calls[x + 1].ret.val = calls[x].b

C10_Witness ==
  /\ Len(calls) >= 2
  /\ param.D = 15
  /\ calls[1].op = "Unpack"
  /\ calls[1].n1 * calls[1].n2 = 8
  /\ Len(calls[1].b) = 15
  /\ calls[1].b[1] = 165
  /\ calls[1].b[15] = 255
  /\ calls[2].op = "Pack"
  /\ calls[2].ret.ok
  /\ calls[2].ret.val = calls[1].b
====
